---- MODULE Spec2Model ----
(***************************************************************************)
(* Model of the run-registry helpers of the MLflow workshop notebooks:     *)
(* get_runs, get_scores_per_run_id, check_best_score, register_model and   *)
(* the notebook cells that track a run and conditionally register it       *)
(* (exercises/03-track-experiments.ipynb), plus the inference notebook's   *)
(* metric logging.  The tracking server is the state: its experiments, its *)
(* runs and its model registry.                                            *)
(***************************************************************************)
EXTENDS Integers, Sequences, FiniteSets, TLC

\* ---- bounds ------------------------------------------------------------
MaxRuns == 3
MaxScore == 1
MaxVersions == 2

\* test scores (R^2 of sklearn's score(): at most 1, may be negative)
Scores == -1..MaxScore
\* run ids handed to the helpers: 0 is an id the server never assigned
RunIds == 0..MaxRuns
Learners == {"l1", "l2"}
ExperimentNames == {"Default", "mlops-workshop"}

VARIABLES
    experiments,  \* the server's experiments: name -> [experiment_id, name]
    runs,         \* the server's runs: run id -> [info, data.metrics, data.params]
    registry,     \* the server's model versions, in order of registration
    pc,           \* per learner: the cell the notebook runs next
    run_id,       \* per learner: the notebook global run_id (0 before any run)
    last          \* the call made last: helper, arguments, return value or exception

vars == <<experiments, runs, registry, pc, run_id, last>>

\* ---- values ------------------------------------------------------------
Return(v) == [kind |-> "return", value |-> v]
Raise(e) == [kind |-> "raise", exc |-> e]

\* what get_experiment_by_name answers for an unknown name
None == [experiment_id |-> -1, name |-> "None"]

\* the notebook global model_name of each learner ("feel free to come up
\* with your own name")
model_name == [l \in Learners |-> IF l = "l1" THEN "turbine-model" ELSE "my-model"]

\* the notebook global features, joined with ", "
features == "wind_speed, wind_direction, is_curtailed"

Max(S) == CHOOSE x \in S : \A y \in S : y <= x

\* ---- the tracking client ------------------------------------------------
get_experiment_by_name(experiment_name) ==
    IF experiment_name \in DOMAIN experiments
    THEN experiments[experiment_name]
    ELSE None

search_runs(experiment_id) ==
    {runs[r] : r \in {x \in DOMAIN runs : runs[x].info.experiment_id = experiment_id}}

\* ---- the helpers of the notebook ----------------------------------------
\* get_runs, were an unknown experiment answered with no runs
get_runs_empty(experiment_name) ==
    LET experiment == get_experiment_by_name(experiment_name) IN
    IF experiment = None
    THEN Return({})
    ELSE Return(search_runs(experiment.experiment_id))

get_runs(experiment_name) ==
    LET experiment == get_experiment_by_name(experiment_name) IN
    IF experiment = None
    THEN Raise("AttributeError")
    ELSE Return(search_runs(experiment.experiment_id))

\* get_scores_per_run_id, were a missing test_score read as 0
get_scores_per_run_id_zero(experiment_name) ==
    LET got == get_runs(experiment_name) IN
    IF got.kind = "raise" THEN got
    ELSE Return([id \in {run.info.run_id : run \in got.value} |->
                    LET run == CHOOSE x \in got.value : x.info.run_id = id IN
                    IF "test_score" \in DOMAIN run.data.metrics
                    THEN run.data.metrics["test_score"] ELSE 0])

get_scores_per_run_id(experiment_name) ==
    LET got == get_runs(experiment_name) IN
    IF got.kind = "raise" THEN got
    ELSE LET scored == {run \in got.value : "test_score" \in DOMAIN run.data.metrics} IN
         Return([id \in {run.info.run_id : run \in scored} |->
                    (CHOOSE run \in scored : run.info.run_id = id).data.metrics["test_score"]])

\* check_best_score, were ties counted as best (>=)
check_best_score_ge(rid, experiment_name) ==
    LET got == get_scores_per_run_id(experiment_name) IN
    IF got.kind = "raise" THEN got
    ELSE LET scores == got.value IN
         IF Cardinality(DOMAIN scores) = 0 THEN Raise("ValueError")
         ELSE IF Cardinality(DOMAIN scores) = 1 THEN Return(TRUE)
         ELSE IF rid \notin DOMAIN scores THEN Raise("KeyError")
         ELSE Return(scores[rid] >= Max({scores[i] : i \in DOMAIN scores \ {rid}}))

\* check_best_score, were the run compared with the least of the other scores
check_best_score_min(rid, experiment_name) ==
    LET got == get_scores_per_run_id(experiment_name) IN
    IF got.kind = "raise" THEN got
    ELSE LET scores == got.value IN
         IF Cardinality(DOMAIN scores) = 0 THEN Raise("ValueError")
         ELSE IF Cardinality(DOMAIN scores) = 1 THEN Return(TRUE)
         ELSE IF rid \notin DOMAIN scores THEN Raise("KeyError")
         ELSE LET other_scores == {scores[i] : i \in DOMAIN scores \ {rid}}
              IN  Return(scores[rid] > (CHOOSE x \in other_scores :
                                            \A y \in other_scores : x <= y))

\* check_best_score, were scores[run_id] read before the emptiness test
check_best_score_lookup_first(rid, experiment_name) ==
    LET got == get_scores_per_run_id(experiment_name) IN
    IF got.kind = "raise" THEN got
    ELSE LET scores == got.value IN
         IF rid \notin DOMAIN scores THEN Raise("KeyError")
         ELSE IF Cardinality(DOMAIN scores) = 1 THEN Return(TRUE)
         ELSE Return(scores[rid] > Max({scores[i] : i \in DOMAIN scores \ {rid}}))

\* check_best_score without the single-entry return: max([]) raises ValueError
check_best_score_no_shortcut(rid, experiment_name) ==
    LET got == get_scores_per_run_id(experiment_name) IN
    IF got.kind = "raise" THEN got
    ELSE LET scores == got.value IN
         IF Cardinality(DOMAIN scores) = 0 THEN Raise("ValueError")
         ELSE IF rid \notin DOMAIN scores THEN Raise("KeyError")
         ELSE LET other_scores == {scores[i] : i \in DOMAIN scores \ {rid}} IN
              IF other_scores = {} THEN Raise("ValueError")
              ELSE Return(scores[rid] > Max(other_scores))

check_best_score(rid, experiment_name) ==
    LET got == get_scores_per_run_id(experiment_name) IN
    IF got.kind = "raise" THEN got
    ELSE LET scores == got.value IN
         IF Cardinality(DOMAIN scores) = 0 THEN Raise("ValueError")
         ELSE IF Cardinality(DOMAIN scores) = 1 THEN Return(TRUE)
         ELSE IF rid \notin DOMAIN scores THEN Raise("KeyError")
         ELSE LET run_score == scores[rid]
                  other_scores == {scores[i] : i \in DOMAIN scores \ {rid}}
              IN  Return(run_score > Max(other_scores))

\* f"runs:/{run_id}/{model_name}" and the parse mlflow makes of it
ModelUri(rid, name) == <<"runs:", rid, name>>
RunIdOfUri(model_uri) == model_uri[2]

get_run(rid) ==
    IF rid \in DOMAIN runs THEN Return(runs[rid]) ELSE Raise("MlflowException")

\* mlflow.register_model(model_uri, name): a new version of the model `name`
mlflow_register_model(model_uri, name) ==
    LET version == 1 + Cardinality({i \in 1..Len(registry) : registry[i].name = name})
        mv == [name |-> name, version |-> version,
               source |-> model_uri, run_id |-> RunIdOfUri(model_uri)]
    IN  [ret |-> Return(mv), registry |-> Append(registry, mv)]

\* register_model, were the model name that of the latest run (the notebook's
\* global) and not that of the run asked for
register_model_latest(rid) ==
    LET got == get_run(rid) IN
    IF got.kind = "raise" THEN [ret |-> got, registry |-> registry]
    ELSE LET run == runs[Max(DOMAIN runs)] IN
         IF "model_name" \notin DOMAIN run.data.params
         THEN [ret |-> Raise("KeyError"), registry |-> registry]
         ELSE LET name == run.data.params["model_name"]
              IN  mlflow_register_model(ModelUri(rid, name), name)

\* register_model, were a run registered at most once
register_model_idempotent(rid) ==
    LET got == get_run(rid) IN
    IF got.kind = "raise" THEN [ret |-> got, registry |-> registry]
    ELSE LET run == got.value IN
         IF "model_name" \notin DOMAIN run.data.params
         THEN [ret |-> Raise("KeyError"), registry |-> registry]
         ELSE LET name == run.data.params["model_name"]
                  done == {i \in 1..Len(registry) : registry[i].run_id = rid}
              IN  IF done # {}
                  THEN [ret |-> Return(registry[CHOOSE i \in done : TRUE]), registry |-> registry]
                  ELSE mlflow_register_model(ModelUri(rid, name), name)

register_model(rid) ==
    LET got == get_run(rid) IN
    IF got.kind = "raise" THEN [ret |-> got, registry |-> registry]
    ELSE LET run == got.value IN
         IF "model_name" \notin DOMAIN run.data.params
         THEN [ret |-> Raise("KeyError"), registry |-> registry]
         ELSE LET name == run.data.params["model_name"]
                  model_uri == ModelUri(rid, name)
              IN  mlflow_register_model(model_uri, name)

\* ---- specification -------------------------------------------------------
Init ==
    /\ experiments = ("Default" :> [experiment_id |-> 0, name |-> "Default"])
    /\ runs = <<>>
    /\ registry = <<>>
    /\ pc = [l \in Learners |-> "idle"]
    /\ run_id = [l \in Learners |-> 0]
    /\ last = [op |-> "none", run_id |-> 0, experiment_name |-> "", ret |-> Return("None")]

Call(op, rid, experiment_name, ret) ==
    [op |-> op, run_id |-> rid, experiment_name |-> experiment_name, ret |-> ret]

\* mlflow.set_experiment(name): the experiment is created when it is missing
set_experiment(experiment_name) ==
    IF experiment_name \in DOMAIN experiments
    THEN experiments
    ELSE experiments @@ (experiment_name :>
            [experiment_id |-> Cardinality(DOMAIN experiments), name |-> experiment_name])

NewRunId == Cardinality(DOMAIN runs) + 1

\* The tracking cell: set_experiment, start_run, the three log_param calls and
\* (the learner's exercise, done or not) log_metric("test_score", score).
TrackRun(l, logged, score) ==
    /\ Cardinality(DOMAIN runs) < MaxRuns
    /\ experiments' = set_experiment("mlops-workshop")
    /\ runs' = runs @@ (NewRunId :>
          [info |-> [run_id |-> NewRunId,
                     experiment_id |-> experiments'["mlops-workshop"].experiment_id],
           data |-> [metrics |-> IF logged THEN ("test_score" :> score) ELSE <<>>,
                     params |-> ("features" :> features) @@ ("model_name" :> model_name[l])]])
    /\ run_id' = [run_id EXCEPT ![l] = NewRunId]
    /\ pc' = [pc EXCEPT ![l] = "tracked"]
    /\ last' = Call("start_run", NewRunId, "mlops-workshop", Return("None"))
    /\ UNCHANGED registry

\* The inference notebook: mlflow.log_metric("R2_score", score) with no run
\* active starts a run in the default experiment; it logs no parameter.
LogR2Score ==
    /\ Cardinality(DOMAIN runs) < MaxRuns
    /\ runs' = runs @@ (NewRunId :>
          [info |-> [run_id |-> NewRunId, experiment_id |-> experiments["Default"].experiment_id],
           data |-> [metrics |-> ("R2_score" :> MaxScore), params |-> <<>>]])
    /\ last' = Call("log_metric", NewRunId, "Default", Return("None"))
    /\ UNCHANGED <<experiments, registry, pc, run_id>>

GetRuns(experiment_name) ==
    /\ last' = Call("get_runs", 0, experiment_name, get_runs(experiment_name))
    /\ UNCHANGED <<experiments, runs, registry, pc, run_id>>

GetScoresPerRunId(experiment_name) ==
    /\ last' = Call("get_scores_per_run_id", 0, experiment_name,
                    get_scores_per_run_id(experiment_name))
    /\ UNCHANGED <<experiments, runs, registry, pc, run_id>>

CheckBestScore(rid, experiment_name) ==
    /\ last' = Call("check_best_score", rid, experiment_name,
                    check_best_score(rid, experiment_name))
    /\ UNCHANGED <<experiments, runs, registry, pc, run_id>>

RegisterModel(rid) ==
    /\ Len(registry) < MaxVersions
    /\ registry' = register_model(rid).registry
    /\ last' = Call("register_model", rid, "", register_model(rid).ret)
    /\ UNCHANGED <<experiments, runs, pc, run_id>>

\* the check of the cell, were an exception of check_best_score caught and the
\* cell carried on to register_model
CellCheckBestScore_swallow(l) ==
    /\ pc[l] = "tracked"
    /\ LET ret == check_best_score(run_id[l], "mlops-workshop") IN
       /\ last' = Call("check_best_score", run_id[l], "mlops-workshop", ret)
       /\ pc' = [pc EXCEPT ![l] = IF ret.kind = "return" /\ ~ret.value THEN "idle" ELSE "best"]
    /\ UNCHANGED <<experiments, runs, registry, run_id>>

\* The conditional registration cell, first half: the check on the notebook's
\* run_id.  False prints and ends the cell; an exception ends the cell.
CellCheckBestScore(l) ==
    /\ pc[l] = "tracked"
    /\ LET ret == check_best_score(run_id[l], "mlops-workshop") IN
       /\ last' = Call("check_best_score", run_id[l], "mlops-workshop", ret)
       /\ pc' = [pc EXCEPT ![l] = IF ret.kind = "return" /\ ret.value THEN "best" ELSE "idle"]
    /\ UNCHANGED <<experiments, runs, registry, run_id>>

\* the registration of the cell, were the check made again with the write and
\* the registration dropped when the run is no longer the best
CellRegisterModel_recheck(l) ==
    /\ pc[l] = "best"
    /\ Len(registry) < MaxVersions
    /\ LET ret == check_best_score(run_id[l], "mlops-workshop")
           still == ret.kind = "return" /\ ret.value
       IN  /\ registry' = IF still THEN register_model(run_id[l]).registry ELSE registry
           /\ last' = IF still
                      THEN Call("register_model", run_id[l], "", register_model(run_id[l]).ret)
                      ELSE Call("check_best_score", run_id[l], "mlops-workshop", ret)
    /\ pc' = [pc EXCEPT ![l] = "idle"]
    /\ UNCHANGED <<experiments, runs, run_id>>

\* The conditional registration cell, second half: register_model(run_id).
CellRegisterModel(l) ==
    /\ pc[l] = "best"
    /\ Len(registry) < MaxVersions
    /\ registry' = register_model(run_id[l]).registry
    /\ last' = Call("register_model", run_id[l], "", register_model(run_id[l]).ret)
    /\ pc' = [pc EXCEPT ![l] = "idle"]
    /\ UNCHANGED <<experiments, runs, run_id>>

\* Calls of the helpers, in any order, against a server that keeps receiving runs.
Next ==
    \/ \E l \in Learners, logged \in BOOLEAN, score \in Scores : TrackRun(l, logged, score)
    \/ LogR2Score
    \/ \E e \in ExperimentNames : GetRuns(e)
    \/ \E e \in ExperimentNames : GetScoresPerRunId(e)
    \/ \E r \in RunIds, e \in ExperimentNames : CheckBestScore(r, e)

Spec == Init /\ [][Next]_vars

\* register_model called on any run id, any number of times.
RegistryNext ==
    \/ \E l \in Learners, logged \in BOOLEAN : TrackRun(l, logged, 0)
    \/ LogR2Score
    \/ \E r \in RunIds : RegisterModel(r)

RegistrySpec == Init /\ [][RegistryNext]_vars

\* The notebook workflow, one learner at a time: track a run, check it,
\* register it only if the check returned True.
OthersIdle(l) == \A o \in Learners \ {l} : pc[o] = "idle"

WorkflowTrackRun(l, logged, score) ==
    /\ OthersIdle(l)
    /\ pc[l] = "idle"
    /\ TrackRun(l, logged, score)

WorkflowCheckBestScore(l) == OthersIdle(l) /\ CellCheckBestScore(l)

WorkflowRegisterModel(l) == OthersIdle(l) /\ CellRegisterModel(l)

WorkflowNext ==
    \/ \E l \in Learners, logged \in BOOLEAN, score \in Scores : WorkflowTrackRun(l, logged, score)
    \/ \E l \in Learners : WorkflowCheckBestScore(l)
    \/ \E l \in Learners : WorkflowRegisterModel(l)

WorkflowSpec == Init /\ [][WorkflowNext]_vars

\* The notebook workflow of every learner against the one server, the cells
\* of different learners interleaved: nothing is locked between cells.
ConcurrentTrackRun(l, logged, score) ==
    /\ pc[l] = "idle"
    /\ TrackRun(l, logged, score)

ConcurrentNext ==
    \/ \E l \in Learners, logged \in BOOLEAN, score \in Scores : ConcurrentTrackRun(l, logged, score)
    \/ \E l \in Learners : CellCheckBestScore(l)
    \/ \E l \in Learners : CellRegisterModel(l)

ConcurrentSpec == Init /\ [][ConcurrentNext]_vars

\* ---- what the claims speak of, read off the server's state ---------------
Exists(e) == e \in DOMAIN experiments

\* the runs of the experiment named e
RunsOf(e) ==
    IF Exists(e)
    THEN {r \in DOMAIN runs : runs[r].info.experiment_id = experiments[e].experiment_id}
    ELSE {}

\* those of them that carry a test_score
Scored(e) == {r \in RunsOf(e) : "test_score" \in DOMAIN runs[r].data.metrics}

ScoreOf(r) == runs[r].data.metrics["test_score"]

Beats(r, e) == \A o \in Scored(e) \ {r} : ScoreOf(r) > ScoreOf(o)

IsTop(r, e) == \A o \in Scored(e) : ScoreOf(r) >= ScoreOf(o)

Checked == last.op = "check_best_score"

Returned(b) == last.ret.kind = "return" /\ last.ret.value = b

Raised(x) == last.ret.kind = "raise" /\ last.ret.exc = x

IsBest(r, e) ==
    LET ret == check_best_score(r, e) IN ret.kind = "return" /\ ret.value = TRUE

\* C1: with at least two scored runs and run_id among them, check_best_score
\* returns True exactly when run_id's score is strictly greater than every
\* other score, so False for each of two runs that tie at the maximum.
C1_StrictlyGreater ==
    (/\ Checked
     /\ Cardinality(Scored(last.experiment_name)) >= 2
     /\ last.run_id \in Scored(last.experiment_name))
    => /\ last.ret.kind = "return"
       /\ last.ret.value = Beats(last.run_id, last.experiment_name)

\* a check of a run that ties at the maximum with another run, answered False
C1_TieWitness ==
    /\ Checked
    /\ last.run_id \in Scored(last.experiment_name)
    /\ IsTop(last.run_id, last.experiment_name)
    /\ \E o \in Scored(last.experiment_name) \ {last.run_id} : ScoreOf(o) = ScoreOf(last.run_id)
    /\ Returned(FALSE)

\* C2 as stated, at a check of a run that carries the metric: whenever some
\* run of the experiment is scored, the check returns True for at least one
\* run of the experiment, and a run it returns True for carries the maximum.
C2_SomeRunIsBest ==
    (Checked /\ last.run_id \in Scored(last.experiment_name))
    => /\ \E r \in RunsOf(last.experiment_name) : IsBest(r, last.experiment_name)
       /\ Returned(TRUE) => IsTop(last.run_id, last.experiment_name)

\* C2 amended: whenever some run of the experiment is scored, the check returns
\* True for a scored run exactly when its score is strictly greater than every
\* other score: for one scored run when the maximum is attained once, for no
\* scored run when it is tied; a scored run it returns True for carries the
\* maximum.  For a run_id that is not scored it returns True only when exactly
\* one run is scored.
C2_UniqueMaxIsBest ==
    (Checked /\ Scored(last.experiment_name) # {})
    => LET e == last.experiment_name
           top == {r \in Scored(e) : IsTop(r, e)}
           best == {r \in Scored(e) : IsBest(r, e)}
       IN  /\ best = IF Cardinality(top) = 1 THEN top ELSE {}
           /\ (Returned(TRUE) /\ last.run_id \in Scored(e)) => IsTop(last.run_id, e)
           /\ (Returned(TRUE) /\ last.run_id \notin Scored(e)) => Cardinality(Scored(e)) = 1

\* a check answered True for the one run that holds the maximum among three
C2_Witness ==
    /\ Checked
    /\ Cardinality(Scored(last.experiment_name)) >= 3
    /\ last.run_id \in Scored(last.experiment_name)
    /\ Returned(TRUE)

\* C3: when some run of the experiment is scored and run_id is not, the check
\* raises KeyError, however many runs are scored.
C3_MissingScoreRaises ==
    (/\ Checked
     /\ Scored(last.experiment_name) # {}
     /\ last.run_id \notin Scored(last.experiment_name))
    => Raised("KeyError")

\* C4: in the sequential workflow, once a learner's cells have run, the latest
\* version of the registry is of a run that carries a test_score equal to the
\* maximum test_score of the experiment.
C4_RegisteredIsBest ==
    ((\A l \in Learners : pc[l] = "idle") /\ Len(registry) > 0)
    => LET latest == registry[Len(registry)].run_id IN
       /\ latest \in Scored("mlops-workshop")
       /\ IsTop(latest, "mlops-workshop")

\* C5: get_scores_per_run_id maps exactly the runs of the experiment that carry
\* a test_score, each to its own value; its size is at most the number of runs
\* of the experiment, and equal to it exactly when every run carries the metric.
C5_ScoresOfScoredRuns ==
    (last.op = "get_scores_per_run_id" /\ Exists(last.experiment_name))
    => LET e == last.experiment_name
           scores == last.ret.value
       IN  /\ last.ret.kind = "return"
           /\ DOMAIN scores = Scored(e)
           /\ \A r \in DOMAIN scores : scores[r] = ScoreOf(r)
           /\ Cardinality(DOMAIN scores) <= Cardinality(RunsOf(e))
           /\ (Cardinality(DOMAIN scores) = Cardinality(RunsOf(e)))
                 <=> (\A r \in RunsOf(e) : "test_score" \in DOMAIN runs[r].data.metrics)

\* a mapping that holds a run scored 0 and leaves out a run without a score
C5_Witness ==
    /\ last.op = "get_scores_per_run_id"
    /\ last.ret.kind = "return"
    /\ \E r \in DOMAIN last.ret.value : last.ret.value[r] = 0
    /\ \E r \in RunsOf(last.experiment_name) : r \notin DOMAIN last.ret.value

\* C6: on an experiment without runs get_scores_per_run_id returns the empty
\* mapping, and when the mapping is empty check_best_score raises ValueError
\* whatever run_id it is given.
C6_NoScoresRaises ==
    /\ (last.op = "get_scores_per_run_id" /\ Exists(last.experiment_name)
            /\ RunsOf(last.experiment_name) = {})
       => (last.ret.kind = "return" /\ DOMAIN last.ret.value = {})
    /\ (Checked /\ Exists(last.experiment_name) /\ Scored(last.experiment_name) = {})
       => Raised("ValueError")

\* a check of a run of the experiment, none of whose runs is scored
C6_Witness ==
    /\ Checked
    /\ last.run_id \in RunsOf(last.experiment_name)
    /\ Scored(last.experiment_name) = {}
    /\ Raised("ValueError")

\* C7: in an experiment of one run, which carries a test_score, the check of
\* that run returns True whatever the score.
C7_SingleRunIsBest ==
    (/\ Checked
     /\ Cardinality(RunsOf(last.experiment_name)) = 1
     /\ last.run_id \in Scored(last.experiment_name))
    => Returned(TRUE)

\* the single run of the experiment has a negative score and is best
C7_Witness ==
    /\ Checked
    /\ RunsOf(last.experiment_name) = {last.run_id}
    /\ last.run_id \in Scored(last.experiment_name)
    /\ ScoreOf(last.run_id) < 0
    /\ Returned(TRUE)

Registered == last.op = "register_model" /\ last.ret.kind = "return"

HasModelName(r) == r \in DOMAIN runs /\ "model_name" \in DOMAIN runs[r].data.params

\* C8: register_model(run_id) succeeds on a run that has a model_name, and a
\* successful call appends one version, named by the model_name of that very
\* run and sourced at that run's artifact, and leaves the versions already
\* there as they were.
C8_RegistersThisRun ==
    [][/\ (last'.op = "register_model" /\ HasModelName(last'.run_id))
          => last'.ret.kind = "return"
       /\ (last'.op = "register_model" /\ last'.ret.kind = "return")
          => LET r == last'.run_id
                 v == registry'[Len(registry')]
             IN  /\ HasModelName(r)
                 /\ Len(registry') = Len(registry) + 1
                 /\ SubSeq(registry', 1, Len(registry)) = registry
                 /\ v.name = runs[r].data.params["model_name"]
                 /\ v.run_id = r
                 /\ v.source = <<"runs:", r, runs[r].data.params["model_name"]>>
                 /\ last'.ret.value = v]_vars

\* a run registered while a later run carries another model name
C8_Witness ==
    /\ Registered
    /\ registry[Len(registry)].run_id = last.run_id
    /\ \E o \in DOMAIN runs :
          /\ o > last.run_id
          /\ HasModelName(o)
          /\ runs[o].data.params["model_name"] # runs[last.run_id].data.params["model_name"]

VersionsIn(reg, r) == {i \in 1..Len(reg) : reg[i].run_id = r}

\* C9: every successful register_model(run_id) adds one version for that run,
\* also when the run has a version already.
C9_NotIdempotent ==
    [][(last'.op = "register_model" /\ last'.ret.kind = "return")
       => Cardinality(VersionsIn(registry', last'.run_id))
             = Cardinality(VersionsIn(registry, last'.run_id)) + 1]_vars

\* one run registered twice: two versions of one model, both of that run
C9_Witness ==
    /\ Registered
    /\ \E i, j \in VersionsIn(registry, last.run_id) :
          /\ i < j
          /\ registry[i].name = registry[j].name
          /\ registry[i].source = registry[j].source
          /\ registry[i].version < registry[j].version

\* C10: get_runs raises when no experiment has the name, and otherwise returns
\* the runs of that experiment, all of them and no run of another experiment.
C10_RunsOfExperiment ==
    last.op = "get_runs"
    => IF Exists(last.experiment_name)
       THEN /\ last.ret.kind = "return"
            /\ last.ret.value \subseteq {runs[r] : r \in DOMAIN runs}
            /\ \A r \in DOMAIN runs :
                  runs[r] \in last.ret.value
                     <=> runs[r].info.experiment_id
                            = experiments[last.experiment_name].experiment_id
       ELSE Raised("AttributeError")

\* get_runs of a name no experiment has, on a server that holds runs
C10_Witness ==
    /\ last.op = "get_runs"
    /\ ~Exists(last.experiment_name)
    /\ DOMAIN runs # {}
    /\ last.ret.kind = "raise"

\* C11: in the workflow the registry changes only by register_model of the
\* run_id whose check has just returned True; a check that returns False or
\* raises (no scores, missing score, unknown experiment) ends the cell with
\* the registry as it was, and the step after it is a new run, not a retry.
C11_PromoteOnlyAfterBest ==
    [][/\ (registry' # registry)
          => /\ Checked /\ Returned(TRUE)
             /\ last'.op = "register_model"
             /\ last'.run_id = last.run_id
             /\ Len(registry') = Len(registry) + 1
             /\ registry'[Len(registry')].run_id = last.run_id
       /\ (last'.op = "check_best_score"
              /\ ~(last'.ret.kind = "return" /\ last'.ret.value = TRUE))
          => /\ registry' = registry
             /\ \A l \in Learners : pc'[l] = "idle"
       /\ (Checked /\ ~Returned(TRUE))
          => /\ registry' = registry
             /\ last'.op = "start_run"]_vars

\* a check that raised KeyError, the cell over, the registry still holding
\* the version registered before
C11_Witness ==
    /\ Checked
    /\ Raised("KeyError")
    /\ Len(registry) > 0
    /\ \A l \in Learners : pc[l] = "idle"

\* C12: with learners interleaved, the registration that follows a check that
\* returned True goes through whatever the scores have become since: the cell
\* registers its run_id without looking at them again and nothing raises.
C12_RegistersWithoutRecheck ==
    [][\A l \in Learners :
          (pc[l] = "best" /\ pc'[l] = "idle")
          => /\ last'.op = "register_model"
             /\ last'.ret.kind = "return"
             /\ last'.run_id = run_id[l]
             /\ Len(registry') = Len(registry) + 1
             /\ SubSeq(registry', 1, Len(registry)) = registry
             /\ registry'[Len(registry')].run_id = run_id[l]]_vars

\* a scored run R has just been registered while another scored run of the
\* experiment has a score at least R's
C12_StaleRegistration ==
    /\ Registered
    /\ registry[Len(registry)].run_id = last.run_id
    /\ last.run_id \in Scored("mlops-workshop")
    /\ \E o \in Scored("mlops-workshop") \ {last.run_id} : ScoreOf(o) >= ScoreOf(last.run_id)

====
